---- MODULE Spec2Model ----
(***************************************************************************)
(* leptos_animation: the frame scheduler (AnimationContext), the          *)
(* per-signal animation state machine (AnimationStatus) and the additive  *)
(* blend of AnimatedSignal::new, as a state machine.                      *)
(*                                                                         *)
(* Time is a discrete clock `now` (Instant::now()).  Values of type T are *)
(* small naturals; values of type I (= f64 for tween_default) are exact   *)
(* multiples of 1/Unit together with the IEEE results +-inf and NaN that  *)
(* the division by a zero duration in Animation::progress produces.       *)
(***************************************************************************)
EXTENDS Integers, Sequences, FiniteSets, TLC

VARIABLES
    state,          \* AnimationContext.state (AnimationContextState)
    custom,         \* custom_request_animation_frame is Some(callback)
    nativePending,  \* the browser holds an uncancelled requestAnimationFrame callback
    now,            \* Instant::now()
    status,         \* signal id -> AnimationStatus (animation_status of each AnimatedSignal)
    prev,           \* signal id -> update_animation_status_effect has run once (prev.is_some())
    dirty,          \* signal id -> animation_tick memo must be recomputed
    hostRequests,   \* invocations of the host frame-request primitive so far
    ticks,          \* animation_frame.notify() calls so far
    calls,          \* request_animation_frame() calls since the last delivered frame
    issued,         \* host frame-request invocations since the last delivered frame
    last,           \* the operation that produced this state, with its inputs
    disposed,       \* the owner of the context has run its on_cleanup callbacks
    twin            \* a context made by provide() that is given the same events

vars == <<state, custom, nativePending, now, status, prev, dirty,
          hostRequests, ticks, calls, issued, last, disposed, twin>>

\* ---------------------------------------------------------------- bounds
MaxTime == 2
MaxValue == 1
MaxDuration == 2
MaxQueue == 2
MaxFrames == 2
MaxCalls == 2

Values == 0..MaxValue
Durations == 0..MaxDuration
Easings == {"LINEAR", "QUAD_IN"}
Modes == {"Start", "ReplaceOrStart", "ReplaceOrSnap", "Snap"}

\* AnimationTarget<T>.  QUAD_IN is given to the targets of the longest
\* duration only: it differs from LINEAR strictly inside an animation, and
\* only the longest one is sampled there.
Targets ==
    {tgt \in [target : Values, duration : Durations, easing : Easings, mode : Modes] :
        tgt.easing = "QUAD_IN" => tgt.duration = MaxDuration}

Min(a, b) == IF a < b THEN a ELSE b

\* ------------------------------------------------------- f64 arithmetic
RECURSIVE Factorial(_)
Factorial(n) == IF n <= 1 THEN 1 ELSE n * Factorial(n - 1)

\* elapsed/duration is a multiple of 1/Scale; an eased progress and every
\* value of type I is a multiple of 1/Unit.
Scale == Factorial(MaxDuration)
Unit == Scale * Scale

Num(n) == [k |-> "num", v |-> n]
Inf(s) == [k |-> "inf", v |-> s]
NaN == [k |-> "nan", v |-> 0]

Sign(n) == IF n < 0 THEN -1 ELSE 1

FNeg(a) == IF a.k = "nan" THEN NaN ELSE [a EXCEPT !.v = -a.v]

FAdd(a, b) ==
    IF a.k = "nan" \/ b.k = "nan" THEN NaN
    ELSE IF a.k = "inf" /\ b.k = "inf" THEN (IF a.v = b.v THEN a ELSE NaN)
    ELSE IF a.k = "inf" THEN a
    ELSE IF b.k = "inf" THEN b
    ELSE Num(a.v + b.v)

FSub(a, b) == FAdd(a, FNeg(b))

\* d * p for a finite d of type T - T and a progress p
FMul(d, p) ==
    IF p.k = "nan" THEN NaN
    ELSE IF p.k = "inf" THEN (IF d = 0 THEN NaN ELSE Inf(Sign(d) * p.v))
    ELSE Num(d * p.v)

\* (now - start).as_secs_f64() / duration.as_secs_f64(), in units of 1/Scale
NormalizedTime(animation, t) ==
    IF animation.duration = 0
    THEN (IF t = animation.start THEN NaN ELSE Inf(1))
    ELSE Num((t - animation.start) * (Scale \div animation.duration))

\* An Easing applied to a normalized time; the result is in units of 1/Unit
ApplyEasing(easing, x) ==
    IF x.k # "num" THEN x
    ELSE IF easing = "LINEAR" THEN Num(x.v * Scale)
    ELSE Num(x.v * x.v)

\* A mutation of is_finished: an animation is finished at its last instant
IsFinishedAtEnd(animation, t) == t >= animation.start + animation.duration

\* Animation::is_finished
IsFinished(animation, t) == t > animation.start + animation.duration

\* Animation::progress
Progress(animation, t) == ApplyEasing(animation.easing, NormalizedTime(animation, t))

\* tween_default: (to - from) * progress + from
Tween(from, to, progress) == FAdd(FMul(to - from, progress), Num(from * Unit))

One == Num(Unit)

\* ------------------------------------------------------ AnimationStatus
Static(s) == [kind |-> "Static", value |-> s]
Snap(s) == [kind |-> "Snap", value |-> s]
Running(to, to_i, animations) ==
    [kind |-> "Running", to |-> to, to_i |-> to_i, animations |-> animations]

NewAnimation(from, tgt, t) ==
    [from |-> from, to |-> tgt.target, to_i |-> Tween(tgt.target, tgt.target, One),
     start |-> t, duration |-> tgt.duration, easing |-> tgt.easing]

\* A mutation of the prune: a Snap status is left as it is
RemoveFinishedKeepsSnap(st, t) ==
    IF st.kind \in {"Static", "Snap"} THEN st
    ELSE LET kept == SelectSeq(st.animations, LAMBDA a : ~IsFinished(a, t))
         IN  IF kept = <<>> THEN Snap(st.to) ELSE [st EXCEPT !.animations = kept]

\* A mutation of the prune: a queue that becomes empty stays Running
RemoveFinishedLeavesEmpty(st, t) ==
    IF st.kind = "Static" THEN st
    ELSE IF st.kind = "Snap" THEN Static(st.value)
    ELSE [st EXCEPT !.animations = SelectSeq(st.animations, LAMBDA a : ~IsFinished(a, t))]

\* AnimationStatus::remove_finished_animations
RemoveFinishedAnimations(st, t) ==
    IF st.kind = "Static" THEN st
    ELSE IF st.kind = "Snap" THEN Static(st.value)
    ELSE LET kept == SelectSeq(st.animations, LAMBDA a : ~IsFinished(a, t))
         IN  IF kept = <<>> THEN Snap(st.to) ELSE [st EXCEPT !.animations = kept]

\* A mutation of the first arm: the animation starts at the target
StartAnimationFromTarget(s, tgt, t) ==
    Running(tgt.target, Tween(tgt.target, tgt.target, One),
            <<NewAnimation(tgt.target, tgt, t)>>)

\* (Static(s) | Snap(s), Start | ReplaceOrStart)
StartAnimation(s, tgt, t) ==
    Running(tgt.target, Tween(tgt.target, tgt.target, One),
            <<NewAnimation(s, tgt, t)>>)

\* A mutation of the push: push_back in place of push_front
PushAnimationBack(st, tgt, t) ==
    Running(tgt.target, Tween(tgt.target, tgt.target, One),
            st.animations \o <<NewAnimation(st.to, tgt, t)>>)

\* (Running, Start)
PushAnimation(st, tgt, t) ==
    Running(tgt.target, Tween(tgt.target, tgt.target, One),
            <<NewAnimation(st.to, tgt, t)>> \o st.animations)

\* A mutation of the replace: the front animation keeps its old to_i
ReplaceTargetStaleToI(st, tgt) ==
    LET last_animation == [Head(st.animations) EXCEPT !.to = tgt.target]
    IN  Running(tgt.target, Tween(tgt.target, tgt.target, One),
                <<last_animation>> \o Tail(st.animations))

\* A mutation of the replace: the front animation also takes the duration
\* and easing of the target
ReplaceTargetAdoptsTiming(st, tgt) ==
    LET new_to_i == Tween(tgt.target, tgt.target, One)
        last_animation == [Head(st.animations) EXCEPT
                              !.to = tgt.target, !.to_i = new_to_i,
                              !.duration = tgt.duration, !.easing = tgt.easing]
    IN  Running(tgt.target, new_to_i, <<last_animation>> \o Tail(st.animations))

\* (Running, ReplaceOrStart | ReplaceOrSnap)
ReplaceTarget(st, tgt) ==
    LET new_to_i == Tween(tgt.target, tgt.target, One)
        last_animation == [Head(st.animations) EXCEPT
                              !.to = tgt.target, !.to_i = new_to_i]
    IN  Running(tgt.target, new_to_i, <<last_animation>> \o Tail(st.animations))

\* A mutation of the match: ReplaceOrSnap starts an animation from a
\* settled status, as ReplaceOrStart does
ApplyReplaceOrSnapStarts(st, tgt, t) ==
    IF st.kind \in {"Static", "Snap"}
    THEN IF tgt.mode \in {"Start", "ReplaceOrStart", "ReplaceOrSnap"}
         THEN StartAnimation(st.value, tgt, t)
         ELSE Snap(tgt.target)
    ELSE IF tgt.mode = "Start" THEN PushAnimation(st, tgt, t)
    ELSE IF tgt.mode \in {"ReplaceOrStart", "ReplaceOrSnap"} THEN ReplaceTarget(st, tgt)
    ELSE Snap(tgt.target)

\* The match of update_animation_status_effect on (status, mode)
Apply(st, tgt, t) ==
    IF st.kind \in {"Static", "Snap"}
    THEN IF tgt.mode \in {"Start", "ReplaceOrStart"}
         THEN StartAnimation(st.value, tgt, t)
         ELSE Snap(tgt.target)
    ELSE IF tgt.mode = "Start" THEN PushAnimation(st, tgt, t)
    ELSE IF tgt.mode \in {"ReplaceOrStart", "ReplaceOrSnap"} THEN ReplaceTarget(st, tgt)
    ELSE Snap(tgt.target)

\* The fold of animated_signal over the queue, front first
RECURSIVE Fold(_, _, _)
Fold(acc, animations, t) ==
    IF animations = <<>> THEN acc
    ELSE LET animation == Head(animations)
             animation_value == Tween(animation.from, animation.to, Progress(animation, t))
         IN  Fold(FSub(acc, FSub(animation.to_i, animation_value)), Tail(animations), t)

\* The value animated_signal computes from a status at time t
ValueOf(st, t) ==
    IF st.kind \in {"Static", "Snap"} THEN Tween(st.value, st.value, One)
    ELSE Fold(st.to_i, st.animations, t)

\* ------------------------------------------------------- frame scheduler
\* A mutation of the scheduler guard: every call issues a host request
RequestIssuesAlways == TRUE

\* The guard of request_animation_frame
RequestIssues == state = "NoAnimationFrameRequested"

\* A mutation of the Some(callback) arm: the callback is called and the
\* state is left as it was
RequestAnimationFrameCustomUnrecorded ==
    /\ RequestIssues => hostRequests < MaxFrames
    /\ state' = IF RequestIssues /\ ~custom THEN "AnimationFrameRequested" ELSE state
    /\ nativePending' = IF RequestIssues /\ ~custom THEN TRUE ELSE nativePending
    /\ hostRequests' = IF RequestIssues THEN hostRequests + 1 ELSE hostRequests
    /\ issued' = IF RequestIssues THEN issued + 1 ELSE issued
    /\ calls' = Min(calls + 1, MaxCalls)

\* AnimationContext::request_animation_frame
RequestAnimationFrame ==
    /\ RequestIssues => hostRequests < MaxFrames
    /\ state' = IF ~RequestIssues THEN state
                ELSE IF custom THEN "CustomAnimationFrameRequested"
                ELSE "AnimationFrameRequested"
    /\ nativePending' = IF RequestIssues /\ ~custom THEN TRUE ELSE nativePending
    /\ hostRequests' = IF RequestIssues THEN hostRequests + 1 ELSE hostRequests
    /\ issued' = IF RequestIssues THEN issued + 1 ELSE issued
    /\ calls' = Min(calls + 1, MaxCalls)

NoRequest == UNCHANGED <<state, nativePending, hostRequests, issued, calls>>

\* A mutation of the delivery handler: the tick is published without the
\* state being reset
PublishTickNoReset ==
    /\ ticks' = ticks + 1
    /\ dirty' = [i \in DOMAIN dirty |-> TRUE]
    /\ calls' = 0
    /\ issued' = 0
    /\ UNCHANGED state

\* A mutation of the delivery handler: the tick reaches one signal only
PublishTickToOne ==
    /\ state' = "NoAnimationFrameRequested"
    /\ ticks' = ticks + 1
    /\ dirty' = [dirty EXCEPT ![1] = TRUE]
    /\ calls' = 0
    /\ issued' = 0

\* state.set_value(NoAnimationFrameRequested); animation_frame.notify()
PublishTick ==
    /\ state' = "NoAnimationFrameRequested"
    /\ ticks' = ticks + 1
    /\ dirty' = [i \in DOMAIN dirty |-> TRUE]
    /\ calls' = 0
    /\ issued' = 0

\* The operation taken, the signal it was given and the mode and value of
\* the target it was given, the kind of that signal's status and the
\* scheduler state it found, for a tick that directly follows an apply to
\* the same signal, that apply (was, mode) and, for a tick, whether the
\* observers of animated_signal were notified
Record(op, sig, mode, value) ==
    LET follows == op = "Tick" /\ last.op = "Apply" /\ last.sig = sig
    IN  [op |-> op, sig |-> sig,
         mode |-> IF follows THEN last.mode ELSE mode,
         value |-> value,
         state |-> state,
         kind |-> IF sig \in DOMAIN status THEN status[sig].kind ELSE "None",
         was |-> IF follows THEN last.kind ELSE "None",
         notified |-> FALSE]

SignalUpdates == {"Ignore", "Update"}

\* A mutation of the memo: a status that was Snap is not told apart
AnimationTickValueOfStatus(was_snap, pruned) ==
    IF pruned.kind = "Static" THEN "Ignore" ELSE "Update"

\* The value the closure of animation_tick returns
AnimationTickValue(was_snap, pruned) ==
    IF was_snap THEN "Update"
    ELSE IF pruned.kind = "Static" THEN "Ignore" ELSE "Update"

\* impl PartialEq for SignalUpdate
SignalUpdateEq(self, other) == other = "Ignore"

\* The memo tells its subscribers when its new value is not equal to the
\* value it held
MemoChanged(new) == \E old \in SignalUpdates : ~SignalUpdateEq(old, new)

\* ------------------------------------------------ a second, native context
\* The context provide() makes, with animated signals over the same sources.
\* `refused` records an event the native context could not have taken.
NativeTwin(st) ==
    [state |-> "NoAnimationFrameRequested", nativePending |-> FALSE,
     status |-> st, prev |-> [i \in DOMAIN st |-> FALSE],
     dirty |-> [i \in DOMAIN st |-> TRUE], hostRequests |-> 0, ticks |-> 0,
     refused |-> FALSE]

TwinRefuses(tw) == [tw EXCEPT !.refused = TRUE]

\* request_animation_frame with custom_request_animation_frame = None
TwinRequestAnimationFrame(tw) ==
    IF tw.state # "NoAnimationFrameRequested" THEN tw
    ELSE [tw EXCEPT !.state = "AnimationFrameRequested",
                    !.nativePending = TRUE,
                    !.hostRequests = @ + 1]

\* The closure handed to request_animation_frame_with_handle fires
TwinNativeDeliver(tw) ==
    IF ~tw.nativePending THEN TwinRefuses(tw)
    ELSE [tw EXCEPT !.nativePending = FALSE,
                    !.state = "NoAnimationFrameRequested",
                    !.ticks = @ + 1,
                    !.dirty = [i \in DOMAIN tw.dirty |-> TRUE]]

\* update_animation_status_effect of its signal i runs at time t
TwinUpdateAnimationStatusEffect(tw, i, tgt, t) ==
    IF ~tw.prev[i] THEN [tw EXCEPT !.prev[i] = TRUE]
    ELSE TwinRequestAnimationFrame([tw EXCEPT !.status[i] = Apply(@, tgt, t)])

\* animation_tick of its signal i is recomputed at time t and, when it
\* yields Update, animated_signal is evaluated
TwinAnimationTick(tw, i, t) ==
    IF ~tw.dirty[i] THEN TwinRefuses(tw)
    ELSE LET was_snap == tw.status[i].kind = "Snap"
             pruned == RemoveFinishedAnimations(tw.status[i], t)
             update == MemoChanged(AnimationTickValue(was_snap, pruned))
             ticked == [tw EXCEPT !.status[i] = pruned, !.dirty[i] = FALSE]
         IN  IF update /\ pruned.kind = "Running"
             THEN TwinRequestAnimationFrame(ticked)
             ELSE ticked

\* animated_signal of its signal i is read while animation_tick is clean
TwinAnimatedSignalGet(tw, i) ==
    IF tw.dirty[i] THEN TwinRefuses(tw)
    ELSE IF tw.status[i].kind = "Running" THEN TwinRequestAnimationFrame(tw)
    ELSE tw

\* ---------------------------------------------------------------- Init
\* A context and one AnimatedSignal for each member of signals, just made
InitSignals(signals) ==
    /\ state = "NoAnimationFrameRequested"
    /\ custom \in BOOLEAN
    /\ nativePending = FALSE
    /\ now = 0
    /\ status \in [signals -> {Static(v) : v \in Values}]
    /\ prev = [i \in signals |-> FALSE]
    /\ dirty = [i \in signals |-> TRUE]
    /\ hostRequests = 0
    /\ ticks = 0
    /\ calls = 0
    /\ issued = 0
    /\ last = [op |-> "Init", sig |-> 0, mode |-> "None", value |-> 0,
               state |-> "NoAnimationFrameRequested", kind |-> "None",
               was |-> "None", notified |-> FALSE]
    /\ disposed = FALSE

\* No second context is followed
NoTwin == NativeTwin(<<>>)

Init == InitSignals({1}) /\ twin = NoTwin

\* -------------------------------------------------------------- actions
\* A manual call of AnimationContext::request_animation_frame
Request ==
    /\ RequestAnimationFrame
    /\ last' = Record("Request", 0, "None", 0)
    /\ UNCHANGED <<custom, now, status, prev, dirty, ticks>>

\* The closure handed to request_animation_frame_with_handle fires
NativeDeliver ==
    /\ nativePending
    /\ nativePending' = FALSE
    /\ PublishTick
    /\ last' = Record("NativeDeliver", 0, "None", 0)
    /\ UNCHANGED <<custom, now, status, prev, hostRequests>>

\* A mutation of the deliver closure: the state is not consulted
DeliverUnguarded ==
    /\ custom
    /\ PublishTick
    /\ last' = Record("Deliver", 0, "None", 0)
    /\ UNCHANGED <<custom, nativePending, now, status, prev, hostRequests>>

\* The closure returned by provide_with_custom_request_animation_frame
Deliver ==
    /\ custom
    /\ IF state # "NoAnimationFrameRequested"
       THEN PublishTick
       ELSE UNCHANGED <<state, ticks, dirty, calls, issued>>
    /\ last' = Record("Deliver", 0, "None", 0)
    /\ UNCHANGED <<custom, nativePending, now, status, prev, hostRequests>>

\* A mutation of the effect: no run is taken for the first one
FirstRunNever(i) == FALSE

\* prev.is_none() in update_animation_status_effect
IsFirstRun(i) == ~prev[i]

\* A mutation of the effect: a frame is requested only for a status that
\* is Running after the match
UpdateAnimationStatusEffectRequestsIfRunning(i, tgt) ==
    /\ IF IsFirstRun(i)
       THEN /\ prev' = [prev EXCEPT ![i] = TRUE]
            /\ NoRequest
            /\ last' = Record("EffectFirstRun", i, tgt.mode, tgt.target)
            /\ UNCHANGED status
       ELSE /\ (status[i].kind = "Running" /\ tgt.mode = "Start")
                   => Len(status[i].animations) < MaxQueue
            /\ status' = [status EXCEPT ![i] = Apply(status[i], tgt, now)]
            /\ IF Apply(status[i], tgt, now).kind = "Running"
               THEN RequestAnimationFrame
               ELSE NoRequest
            /\ last' = Record("Apply", i, tgt.mode, tgt.target)
            /\ UNCHANGED prev
    /\ UNCHANGED <<custom, now, dirty, ticks>>

\* update_animation_status_effect runs with the source yielding tgt
UpdateAnimationStatusEffect(i, tgt) ==
    /\ IF IsFirstRun(i)
       THEN /\ prev' = [prev EXCEPT ![i] = TRUE]
            /\ NoRequest
            /\ last' = Record("EffectFirstRun", i, tgt.mode, tgt.target)
            /\ UNCHANGED status
       ELSE /\ (status[i].kind = "Running" /\ tgt.mode = "Start")
                   => Len(status[i].animations) < MaxQueue
            /\ status' = [status EXCEPT ![i] = Apply(status[i], tgt, now)]
            /\ RequestAnimationFrame
            /\ last' = Record("Apply", i, tgt.mode, tgt.target)
            /\ UNCHANGED prev
    /\ UNCHANGED <<custom, now, dirty, ticks>>

\* animation_tick is recomputed after a tick; when it yields Update the
\* observers of animated_signal run and evaluate it, at a later sample of
\* Instant::now()
AnimationTick(i) ==
    /\ dirty[i]
    /\ LET was_snap == status[i].kind = "Snap"
           pruned == RemoveFinishedAnimations(status[i], now)
           update == MemoChanged(AnimationTickValue(was_snap, pruned))
       IN  /\ status' = [status EXCEPT ![i] = pruned]
           /\ dirty' = [dirty EXCEPT ![i] = FALSE]
           /\ IF update /\ pruned.kind = "Running"
              THEN RequestAnimationFrame
              ELSE NoRequest
           /\ IF update
              THEN \E dt \in 0..1 : now + dt <= MaxTime /\ now' = now + dt
              ELSE now' = now
           /\ last' = [Record("Tick", i, "None", 0) EXCEPT !.notified = update]
    /\ UNCHANGED <<custom, prev, ticks>>

\* animated_signal is read while animation_tick is clean
AnimatedSignalGet(i) ==
    /\ ~dirty[i]
    /\ IF status[i].kind = "Running" THEN RequestAnimationFrame ELSE NoRequest
    /\ last' = Record("Get", i, "None", 0)
    /\ UNCHANGED <<custom, now, status, prev, dirty, ticks>>

\* The clock advances
AdvanceTime ==
    /\ now < MaxTime
    /\ now' = now + 1
    /\ last' = Record("AdvanceTime", 0, "None", 0)
    /\ UNCHANGED <<state, custom, nativePending, status, prev, dirty,
                   hostRequests, ticks, calls, issued>>

\* A mutation of the cleanup: the request is left with the browser
DisposeKeepsRequest ==
    /\ ~disposed
    /\ disposed' = TRUE
    /\ last' = Record("Dispose", 0, "None", 0)
    /\ UNCHANGED <<state, custom, nativePending, now, status, prev, dirty,
                   hostRequests, ticks, calls, issued, twin>>

\* The on_cleanup closure of provide() runs: the owner of the context is
\* cleaned up, and with it every effect, memo and stored value under it
Dispose ==
    /\ ~disposed
    /\ disposed' = TRUE
    /\ nativePending' = IF state = "AnimationFrameRequested" THEN FALSE
                        ELSE nativePending
    /\ last' = Record("Dispose", 0, "None", 0)
    /\ UNCHANGED <<state, custom, now, status, prev, dirty,
                   hostRequests, ticks, calls, issued, twin>>

\* The step is taken by a reactive graph that has not been cleaned up
Alive == ~disposed /\ UNCHANGED disposed

\* One context with one animated signal.  The browser's callback needs no
\* reactive owner to fire.
Next ==
    \/ Alive /\ Request /\ UNCHANGED twin
    \/ NativeDeliver /\ UNCHANGED <<disposed, twin>>
    \/ Alive /\ Deliver /\ UNCHANGED twin
    \/ \E i \in DOMAIN status, tgt \in Targets :
          Alive /\ UpdateAnimationStatusEffect(i, tgt) /\ UNCHANGED twin
    \/ \E i \in DOMAIN status : Alive /\ AnimationTick(i) /\ UNCHANGED twin
    \/ \E i \in DOMAIN status : Alive /\ AnimatedSignalGet(i) /\ UNCHANGED twin
    \/ Alive /\ AdvanceTime /\ UNCHANGED twin

Spec == Init /\ [][Next]_vars

\* The same, with the owner of the context cleaned up at any moment
NextTeardown == Next \/ Dispose

SpecTeardown == Init /\ [][NextTeardown]_vars

\* Two animated signals under one native context
SharedTargets ==
    {tgt \in Targets : tgt.duration = 1 /\ tgt.mode \in {"Start", "Snap"}}

InitShared == InitSignals({1, 2}) /\ ~custom /\ twin = NoTwin

NextShared ==
    \/ NativeDeliver /\ UNCHANGED <<disposed, twin>>
    \/ \E i \in DOMAIN status, tgt \in SharedTargets :
          Alive /\ UpdateAnimationStatusEffect(i, tgt) /\ UNCHANGED twin
    \/ \E i \in DOMAIN status : Alive /\ AnimationTick(i) /\ UNCHANGED twin
    \/ \E i \in DOMAIN status : Alive /\ AnimatedSignalGet(i) /\ UNCHANGED twin
    \/ Alive /\ AdvanceTime /\ UNCHANGED twin

SpecShared == InitShared /\ [][NextShared]_vars

\* A custom-host context and a native context given the same events: the
\* host's frame arrives at both, a deliver() call nobody asked for reaches
\* the custom context alone
InitPair == InitSignals({1}) /\ custom /\ twin = NativeTwin(status)

NextPair ==
    \/ Alive /\ Request /\ twin' = TwinRequestAnimationFrame(twin)
    \/ /\ Alive
       /\ Deliver
       /\ twin' = IF state # "NoAnimationFrameRequested" \/ twin.nativePending
                  THEN TwinNativeDeliver(twin)
                  ELSE twin
    \/ \E i \in DOMAIN status, tgt \in Targets :
          /\ Alive
          /\ UpdateAnimationStatusEffect(i, tgt)
          /\ twin' = TwinUpdateAnimationStatusEffect(twin, i, tgt, now)
    \/ \E i \in DOMAIN status :
          Alive /\ AnimationTick(i) /\ twin' = TwinAnimationTick(twin, i, now)
    \/ \E i \in DOMAIN status :
          Alive /\ AnimatedSignalGet(i) /\ twin' = TwinAnimatedSignalGet(twin, i)
    \/ Alive /\ AdvanceTime /\ UNCHANGED twin

SpecPair == InitPair /\ [][NextPair]_vars

\* -------------------------------------------------------------- liveness
\* One context with one animated signal whose source stops changing: it
\* yields only targets whose animation ends before the clock's last
\* reading, every requested frame is delivered, a memo that a tick has
\* invalidated is recomputed (the animated signal has observers), and the
\* clock advances.
LiveEffect(i, tgt) ==
    /\ Alive
    /\ now + tgt.duration < MaxTime
    /\ UpdateAnimationStatusEffect(i, tgt)
    /\ UNCHANGED twin

LiveNativeDeliver == NativeDeliver /\ UNCHANGED <<disposed, twin>>

LiveDeliver ==
    /\ Alive
    /\ state # "NoAnimationFrameRequested"
    /\ Deliver
    /\ UNCHANGED twin

LiveTick(i) == Alive /\ AnimationTick(i) /\ UNCHANGED twin

LiveGet(i) == Alive /\ AnimatedSignalGet(i) /\ UNCHANGED twin

LiveAdvanceTime == Alive /\ AdvanceTime /\ UNCHANGED twin

\* The counts of host requests and of ticks are taken from a later moment
\* on, so that no count stops a request
RebaseCounts ==
    /\ ticks > 0
    /\ ticks' = 0
    /\ hostRequests' = hostRequests - ticks
    /\ UNCHANGED <<state, custom, nativePending, now, status, prev, dirty,
                   calls, issued, last, disposed, twin>>

NextLive ==
    \/ \E i \in DOMAIN status, tgt \in Targets : LiveEffect(i, tgt)
    \/ LiveNativeDeliver
    \/ LiveDeliver
    \/ \E i \in DOMAIN status : LiveTick(i)
    \/ \E i \in DOMAIN status : LiveGet(i)
    \/ LiveAdvanceTime
    \/ RebaseCounts

Fairness ==
    /\ WF_vars(LiveNativeDeliver)
    /\ WF_vars(LiveDeliver)
    /\ WF_vars(\E i \in DOMAIN status : LiveTick(i))
    /\ WF_vars(LiveAdvanceTime)
    /\ WF_vars(RebaseCounts)

SpecLive == Init /\ [][NextLive]_vars /\ Fairness

\* ------------------------------------------------------- frame scheduler
Requested == state # "NoAnimationFrameRequested"

SchedulerVars == <<state, nativePending, hostRequests, issued, ticks>>

\* C1: between two frame deliveries the host frame-request primitive is
\* invoked exactly once however many request_animation_frame() calls are
\* made (one or more calls: one invocation, and a request is outstanding;
\* no call: none), and a call made while a request is outstanding changes
\* neither the scheduler state nor any count of host requests or ticks.
C1_SingleFrameRequest ==
    /\ [](/\ calls >= 1 => (issued = 1 /\ Requested)
          /\ calls = 0 => issued = 0
          /\ nativePending => state = "AnimationFrameRequested")
    /\ [][(last'.op = "Request" /\ Requested)
             => UNCHANGED <<SchedulerVars, status, dirty>>]_vars

C1_Witness ==
    /\ calls >= 2
    /\ issued = 1
    /\ last.op = "Request"
    /\ last.state # "NoAnimationFrameRequested"

\* C2: a frame delivered while a request is outstanding resets the state to
\* NoAnimationFrameRequested and publishes the tick exactly once (every
\* animation_tick memo is invalidated); a tick is published only from a
\* state with a request outstanding, one at a time; and the ticks published
\* never outnumber the host frame requests issued.
C2_TickPerDeliveredFrame ==
    /\ [](ticks <= hostRequests)
    /\ [][(last'.op \in {"NativeDeliver", "Deliver"} /\ Requested)
             => (/\ state' = "NoAnimationFrameRequested"
                 /\ ticks' = ticks + 1
                 /\ \A i \in DOMAIN dirty : dirty'[i])]_vars
    /\ [][ticks' # ticks => (Requested /\ ticks' = ticks + 1)]_vars

C2_Witness ==
    /\ last.op \in {"NativeDeliver", "Deliver"}
    /\ last.state # "NoAnimationFrameRequested"
    /\ state = "NoAnimationFrameRequested"
    /\ ticks = 2
    /\ hostRequests = 2

\* C3: deliver() called while the state is NoAnimationFrameRequested is a
\* no-op: the scheduler state and counts, every signal's status and memo
\* and so every signal's output value stay as they were.
C3_ExtraneousDeliverIsNoOp ==
    [][(last'.op = "Deliver" /\ ~Requested)
          => (/\ UNCHANGED <<SchedulerVars, calls, status, dirty, prev, now>>
              /\ \A i \in DOMAIN status :
                     ValueOf(status'[i], now') = ValueOf(status[i], now))]_vars

C3_Witness ==
    /\ last.op = "Deliver"
    /\ last.state = "NoAnimationFrameRequested"
    /\ ticks >= 1
    /\ \E i \in DOMAIN status : status[i].kind = "Running"

\* ------------------------------------------------ animation state machine
\* This step is update_animation_status_effect applying tgt to signal i
Applies(i, tgt) == prev[i] /\ UpdateAnimationStatusEffect(i, tgt)

\* The step that led to this state applied a target to signal i
Applied(i) == last.op = "Apply" /\ last.sig = i

\* The targets that have the mode and value the last step recorded
TargetsApplied == {tgt \in Targets : tgt.mode = last.mode /\ tgt.target = last.value}

ReplaceModes == {"ReplaceOrStart", "ReplaceOrSnap"}

\* C4: a Start-mode target applied to a Running status leaves the blended
\* output value, computed at the instant of the push, as it was just before.
C4_StartPushKeepsValue ==
    [][\A i \in DOMAIN status :
          (Applied(i)' /\ status[i].kind = "Running" /\ last'.mode = "Start")
             => ValueOf(status'[i], now') = ValueOf(status[i], now)]_vars

\* The same for the targets whose duration is not zero
StartPushKeepsValueForPositiveDuration ==
    [][\A i \in DOMAIN status :
          (/\ Applied(i)'
           /\ status[i].kind = "Running"
           /\ last'.mode = "Start"
           /\ Head(status'[i].animations).duration > 0)
             => ValueOf(status'[i], now') = ValueOf(status[i], now)]_vars

C6_StartFromSettled ==
    [][\A i \in DOMAIN status :
          (/\ Applied(i)'
           /\ status[i].kind \in {"Static", "Snap"}
           /\ last'.mode \in {"Start", "ReplaceOrStart"})
             => \A tgt \in TargetsApplied' :
                   Applies(i, tgt)
                      => status'[i] =
                           [kind |-> "Running", to |-> tgt.target,
                            to_i |-> Tween(tgt.target, tgt.target, One),
                            animations |->
                              <<[from |-> status[i].value, to |-> tgt.target,
                                 to_i |-> Tween(tgt.target, tgt.target, One),
                                 start |-> now, duration |-> tgt.duration,
                                 easing |-> tgt.easing]>>]]_vars

C6_Witness ==
    /\ last.op = "Apply"
    /\ last.kind = "Snap"
    /\ last.mode = "ReplaceOrStart"
    /\ \E i \in DOMAIN status :
          /\ last.sig = i
          /\ status[i].kind = "Running"
          /\ Len(status[i].animations) = 1
          /\ status[i].animations[1].from # status[i].to
          /\ status[i].animations[1].start = now
          /\ now > 0

\* C7: ReplaceOrSnap or Snap applied to Static(s) or Snap(s) yields
\* Snap(target): no Running status and no animation is created.
C7_SnapFromSettled ==
    [][\A i \in DOMAIN status :
          (/\ Applied(i)'
           /\ status[i].kind \in {"Static", "Snap"}
           /\ last'.mode \in {"ReplaceOrSnap", "Snap"})
             => status'[i] = [kind |-> "Snap", value |-> last'.value]]_vars

C7_Witness ==
    /\ last.op = "Apply"
    /\ last.kind = "Static"
    /\ last.mode = "ReplaceOrSnap"
    /\ \E i \in DOMAIN status : last.sig = i /\ status[i].kind = "Snap"

\* C8: Start applied to a Running status puts one new animation at the
\* front, from the previous `to` to the target, started now with the
\* target's duration and easing; to and to_i become the target's and the
\* animations already queued follow unchanged, in the same order.
C8_StartPushesFront ==
    [][\A i \in DOMAIN status :
          (Applied(i)' /\ status[i].kind = "Running" /\ last'.mode = "Start")
             => \A tgt \in TargetsApplied' :
                   Applies(i, tgt)
                      => /\ status'[i].kind = "Running"
                         /\ Len(status'[i].animations) = Len(status[i].animations) + 1
                         /\ Head(status'[i].animations) =
                               [from |-> status[i].to, to |-> tgt.target,
                                to_i |-> Tween(tgt.target, tgt.target, One),
                                start |-> now, duration |-> tgt.duration,
                                easing |-> tgt.easing]
                         /\ Tail(status'[i].animations) = status[i].animations
                         /\ status'[i].to = tgt.target
                         /\ status'[i].to_i = Tween(tgt.target, tgt.target, One)]_vars

C8_Witness ==
    /\ last.op = "Apply"
    /\ last.kind = "Running"
    /\ last.mode = "Start"
    /\ \E i \in DOMAIN status :
          /\ last.sig = i
          /\ status[i].kind = "Running"
          /\ Len(status[i].animations) = 2
          /\ status[i].animations[1].start > status[i].animations[2].start
          /\ status[i].animations[1].to # status[i].animations[1].from

\* C9: ReplaceOrStart or ReplaceOrSnap applied to a Running status keeps the
\* queue length and sets only the status's to/to_i and the front
\* animation's to/to_i to the target's; the front animation's from, start,
\* duration and easing and every other animation are unchanged.
C9_ReplaceTouchesFrontTargetOnly ==
    [][\A i \in DOMAIN status :
          (Applied(i)' /\ status[i].kind = "Running" /\ last'.mode \in ReplaceModes)
             => LET target == last'.value
                IN  /\ status'[i].kind = "Running"
                    /\ status'[i].to = target
                    /\ status'[i].to_i = Tween(target, target, One)
                    /\ Len(status'[i].animations) = Len(status[i].animations)
                    /\ Head(status'[i].animations) =
                          [Head(status[i].animations) EXCEPT
                              !.to = target, !.to_i = Tween(target, target, One)]
                    /\ Tail(status'[i].animations) = Tail(status[i].animations)]_vars

C9_Witness ==
    /\ last.op = "Apply"
    /\ last.kind = "Running"
    /\ last.mode \in ReplaceModes
    /\ \E i \in DOMAIN status :
          /\ last.sig = i
          /\ status[i].kind = "Running"
          /\ Len(status[i].animations) = 2
          /\ status[i].animations[1].start < now
          /\ status[i].animations[1].to # status[i].animations[2].to

\* C10: Snap applied to a Running status yields Snap(v), the queue gone; the
\* next tick of that signal turns Snap(v) into Static(v), and the output
\* value is then tween(v, v, 1.0), that is v.
C10_SnapDiscardsThenSettles ==
    /\ [][\A i \in DOMAIN status :
             (Applied(i)' /\ status[i].kind = "Running" /\ last'.mode = "Snap")
                => status'[i] = [kind |-> "Snap", value |-> last'.value]]_vars
    /\ [][\A i \in DOMAIN status :
             (last'.op = "Tick" /\ last'.sig = i /\ status[i].kind = "Snap")
                => /\ status'[i] = [kind |-> "Static", value |-> status[i].value]
                   /\ ValueOf(status'[i], now') = Num(status[i].value * Unit)]_vars

C10_Witness ==
    /\ last.op = "Tick"
    /\ last.was = "Running"
    /\ last.mode = "Snap"
    /\ last.kind = "Snap"
    /\ \E i \in DOMAIN status :
          /\ last.sig = i
          /\ status[i].kind = "Static"
          /\ status[i].value > 0

\* ------------------------------------------------------ prune and notify
\* This step recomputed animation_tick of signal i
Ticked(i) == last.op = "Tick" /\ last.sig = i

\* C11: on a tick the prune keeps exactly the animations with
\* now <= start + duration, in their order; when none is left the status is
\* Snap(to) and the output value is tween(to, to, 1.0); a tick on Snap(v)
\* gives Static(v), and the output value is still tween(v, v, 1.0).
C11_PruneBoundaryThenSettle ==
    /\ [][\A i \in DOMAIN status :
             (Ticked(i)' /\ status[i].kind = "Running")
                => LET live == SelectSeq(status[i].animations,
                                         LAMBDA a : now <= a.start + a.duration)
                       to == status[i].to
                   IN  /\ live # <<>>
                             => status'[i] = [status[i] EXCEPT !.animations = live]
                       /\ live = <<>>
                             => /\ status'[i] = [kind |-> "Snap", value |-> to]
                                /\ ValueOf(status'[i], now') = Tween(to, to, One)
                                /\ ValueOf(status'[i], now') = Num(to * Unit)]_vars
    /\ [][\A i \in DOMAIN status :
             (Ticked(i)' /\ status[i].kind = "Snap")
                => /\ status'[i] = [kind |-> "Static", value |-> status[i].value]
                   /\ ValueOf(status'[i], now') = ValueOf(status[i], now)
                   /\ ValueOf(status'[i], now')
                         = Tween(status[i].value, status[i].value, One)]_vars

C11_Witness ==
    /\ last.op = "Tick"
    /\ last.kind = "Running"
    /\ last.was = "None"
    /\ now = MaxTime
    /\ \E i \in DOMAIN status :
          /\ last.sig = i
          /\ status[i].kind = "Snap"
          /\ status[i].value > 0

\* C12: each recomputation of animation_tick, of which a signal has at most
\* one per published tick, notifies the observers of animated_signal once
\* when the status was Snap before it or is Running or Snap after the prune
\* (Running -> Snap, Snap -> Static, Running -> Running), and does not
\* notify them when the status is Static before and after.
C12_NotifiesOnChangeOnly ==
    [][\A i \in DOMAIN status :
          Ticked(i)'
             => LET before == status[i].kind
                    after == status'[i].kind
                IN  /\ dirty[i] /\ ~dirty'[i]
                    /\ last'.notified
                          <=> (before = "Snap" \/ after \in {"Running", "Snap"})
                    /\ (before = "Static" /\ after = "Static") => ~last'.notified
                    /\ (before = "Running" /\ after = "Snap") => last'.notified
                    /\ (before = "Snap" /\ after = "Static") => last'.notified
                    /\ (before = "Running" /\ after = "Running") => last'.notified
                    /\ before = "Static" => after = "Static"
                    /\ before = "Snap" => after = "Static"]_vars

C12_Witness ==
    /\ last.op = "Tick"
    /\ last.kind = "Static"
    /\ ~last.notified
    /\ ticks >= 2
    /\ \E i \in DOMAIN status :
          /\ last.sig = i
          /\ prev[i]
          /\ status[i].kind = "Static"
          /\ ~dirty[i]

\* C13: the first run of update_animation_status_effect, whatever the mode
\* and value of the target it reads, leaves the status (the Static status of
\* the construction), the scheduler and the host untouched; until a later
\* run the status stays as constructed, and only a run after the first
\* applies a target.
C13_FirstRunSetsBaselineOnly ==
    /\ [][\A i \in DOMAIN status :
             (last'.op = "EffectFirstRun" /\ last'.sig = i)
                => /\ ~prev[i] /\ prev'[i]
                   /\ status[i].kind = "Static"
                   /\ UNCHANGED <<status, SchedulerVars, calls, dirty>>]_vars
    /\ [][\A i \in DOMAIN status :
             ~prev'[i] => (status[i].kind = "Static" /\ status'[i] = status[i])]_vars
    /\ [][\A i \in DOMAIN status : Applied(i)' => prev[i]]_vars

C13_Witness ==
    /\ last.op = "EffectFirstRun"
    /\ last.mode = "Start"
    /\ state = "NoAnimationFrameRequested"
    /\ hostRequests = 0
    /\ \E i \in DOMAIN status :
          /\ last.sig = i
          /\ prev[i]
          /\ status[i].kind = "Static"
          /\ status[i].value # last.value

\* C14: with two animated signals under one context, every published tick
\* invalidates animation_tick of both; only a published tick does; a signal
\* prunes and recomputes only when that tick has invalidated its memo, which
\* the recomputation clears, so at most once per tick; and the
\* recomputation of one signal touches neither the memo nor the status of
\* the other.
C14_OneTickForAllSignals ==
    /\ [][ticks' # ticks
             => (ticks' = ticks + 1 /\ \A i \in DOMAIN status : dirty'[i])]_vars
    /\ [][\A i \in DOMAIN status : (dirty'[i] /\ ~dirty[i]) => ticks' = ticks + 1]_vars
    /\ [][\A i \in DOMAIN status :
             Ticked(i)'
                => /\ dirty[i] /\ ~dirty'[i]
                   /\ ticks' = ticks
                   /\ \A j \in DOMAIN status \ {i} :
                         dirty'[j] = dirty[j] /\ status'[j] = status[j]]_vars
    /\ [][\A i \in DOMAIN status :
             status'[i] # status[i] => (Ticked(i)' \/ Applied(i)')]_vars

C14_Witness ==
    /\ DOMAIN status = {1, 2}
    /\ last.op = "Tick"
    /\ ticks = 1
    /\ hostRequests = 2
    /\ now > 0
    /\ ~dirty[1] /\ ~dirty[2]
    /\ status[1].kind = "Running" /\ status[2].kind = "Running"
    /\ Len(status[1].animations) = 2
    /\ status[1].to # status[2].to

\* ------------------------------------------------------ teardown and hosts
\* C15: the cleanup of a context whose state is AnimationFrameRequested
\* cancels the request the browser holds; once the context is disposed the
\* browser holds no request of it and no tick is published any more.
C15_TeardownCancelsNativeRequest ==
    /\ [](disposed => ~nativePending)
    /\ [][(last'.op = "Dispose" /\ state = "AnimationFrameRequested")
             => (nativePending /\ ~nativePending' /\ ticks' = ticks)]_vars
    /\ [][disposed => (ticks' = ticks /\ dirty' = dirty /\ status' = status)]_vars

C15_Witness ==
    /\ disposed
    /\ last.op = "Dispose"
    /\ last.state = "AnimationFrameRequested"
    /\ state = "AnimationFrameRequested"
    /\ ~nativePending
    /\ ticks >= 1
    /\ \E i \in DOMAIN status : status[i].kind = "Running"

\* C16: a custom-host context and a native context given the same requests,
\* source changes, reads, clock and frames agree at every moment: a request
\* is outstanding in both or in neither (so the host's frame reaches the
\* deliver closure exactly when the browser would fire the native one), they
\* have published the same ticks and called their host as often, every
\* signal has the same status, memo state and baseline, and the native
\* context could take every event the custom one took.
C16_CustomBehavesAsNative ==
    /\ ~twin.refused
    /\ (twin.state # "NoAnimationFrameRequested") <=> Requested
    /\ twin.nativePending <=> Requested
    /\ twin.ticks = ticks
    /\ twin.hostRequests = hostRequests
    /\ twin.status = status
    /\ twin.dirty = dirty
    /\ twin.prev = prev
    /\ \A i \in DOMAIN status :
          ValueOf(twin.status[i], now) = ValueOf(status[i], now)

C16_Witness ==
    /\ custom
    /\ last.op = "Deliver"
    /\ last.state = "CustomAnimationFrameRequested"
    /\ ticks = 2
    /\ twin.ticks = 2
    /\ twin.state = "NoAnimationFrameRequested"
    /\ \E i \in DOMAIN status :
          /\ twin.status[i].kind = "Running"
          /\ Len(twin.status[i].animations) = 2
          /\ status[i] = twin.status[i]

\* ------------------------------------------------------ queue invariants
\* C17: a status in the Running variant has at least one animation in its
\* queue, in every reachable state.
C17_RunningQueueNonEmpty ==
    \A i \in DOMAIN status :
        status[i].kind = "Running" => Len(status[i].animations) >= 1

\* A prune has removed the younger animation of a queue and kept the older
C17_Witness ==
    /\ last.op = "Tick"
    /\ last.kind = "Running"
    /\ \E i \in DOMAIN status :
          /\ last.sig = i
          /\ status[i].kind = "Running"
          /\ Len(status[i].animations) = 1
          /\ status[i].animations[1].to # status[i].to

\* C18 as stated: in every Running status each animation of the queue
\* started strictly later than the animation behind it.
C18_QueueStrictlyDescendingStart ==
    \A i \in DOMAIN status :
        status[i].kind = "Running"
           => \A k \in 1..(Len(status[i].animations) - 1) :
                 status[i].animations[k].start > status[i].animations[k + 1].start

\* C18 as amended: in every Running status each animation of the queue
\* started no earlier than the animation behind it; two animations pushed
\* at the same reading of the clock have the same start.
C18_QueueDescendingStart ==
    \A i \in DOMAIN status :
        status[i].kind = "Running"
           => \A k \in 1..(Len(status[i].animations) - 1) :
                 status[i].animations[k].start >= status[i].animations[k + 1].start

C18_Witness ==
    /\ last.op = "Apply"
    /\ last.kind = "Running"
    /\ last.mode \in ReplaceModes
    /\ now > 0
    /\ \E i \in DOMAIN status :
          /\ last.sig = i
          /\ status[i].kind = "Running"
          /\ Len(status[i].animations) = 2
          /\ status[i].animations[1].start = status[i].animations[2].start
          /\ status[i].animations[1].start = now
          /\ status[i].animations[1].to # status[i].animations[2].to

\* C19: whenever a ReplaceOrStart or ReplaceOrSnap target is applied to a
\* Running status, the queue holds an animation that is not finished at
\* that instant (now <= start + duration).
C19_ReplaceFindsLiveAnimation ==
    [][\A i \in DOMAIN status :
          (Applied(i)' /\ status[i].kind = "Running" /\ last'.mode \in ReplaceModes)
             => \E k \in 1..Len(status[i].animations) :
                   ~IsFinished(status[i].animations[k], now)]_vars

\* ------------------------------------------------------- normalized time
\* The step that led to this state evaluated animated_signal of signal i at
\* time now: a read, or the observers' evaluation after a notifying tick
Evaluated(i) ==
    /\ last.sig = i
    /\ last.op = "Get" \/ (last.op = "Tick" /\ last.notified)

\* x is a number from 0.0 to 1.0
InUnitRange(x) == x.k = "num" /\ 0 <= x.v /\ x.v <= Scale

\* C20: whenever the output value of a Running status is computed, the
\* normalized time (now - start) / duration given to the easing function of
\* every animation in the queue is a number from 0.0 to 1.0.
C20_NormalizedTimeInUnitRange ==
    \A i \in DOMAIN status :
        (Evaluated(i) /\ status[i].kind = "Running")
           => \A k \in 1..Len(status[i].animations) :
                 InUnitRange(NormalizedTime(status[i].animations[k], now))

\* ------------------------------------------------------ requests and ticks
\* C21: when update_animation_status_effect has applied a target, of any
\* mode and to any status, a frame request is outstanding: the state is not
\* NoAnimationFrameRequested, the host has been asked exactly once since the
\* last delivered frame and, in a native context, the browser holds the
\* callback.
C21_FrameRequestedAfterApply ==
    last.op = "Apply"
       => /\ Requested
          /\ calls >= 1
          /\ issued = 1
          /\ ~custom => nativePending

C21_Witness ==
    /\ last.op = "Apply"
    /\ last.state = "NoAnimationFrameRequested"
    /\ last.kind = "Static"
    /\ last.mode = "Snap"
    /\ ticks >= 1
    /\ Requested
    /\ \E i \in DOMAIN status : last.sig = i /\ status[i].kind = "Snap"

\* The step that led to this state called request_animation_frame: a manual
\* call, an applied target, or an evaluation of animated_signal that found
\* the status Running
CalledRequest ==
    \/ last.op \in {"Request", "Apply"}
    \/ /\ last.op = "Get" \/ (last.op = "Tick" /\ last.notified)
       /\ status[last.sig].kind = "Running"

\* C22: a delivered frame resets the state to NoAnimationFrameRequested as
\* it publishes the tick, so the first request_animation_frame() call made
\* after it, while the tick is processed, finds no request outstanding and
\* asks the host for a new frame, and every further call before the next
\* delivery changes neither the state nor the count of host requests.
C22_RequestDuringTickIsKept ==
    /\ [][(last'.op \in {"NativeDeliver", "Deliver"} /\ Requested)
             => (state' = "NoAnimationFrameRequested" /\ calls' = 0 /\ issued' = 0)]_vars
    /\ [][(CalledRequest' /\ ticks >= 1 /\ calls = 0)
             => (/\ ~Requested
                 /\ Requested'
                 /\ hostRequests' = hostRequests + 1
                 /\ issued' = 1
                 /\ ~custom => nativePending')]_vars
    /\ [][(CalledRequest' /\ ticks >= 1 /\ calls >= 1)
             => (Requested /\ UNCHANGED <<state, nativePending, hostRequests, issued>>)]_vars

C22_Witness ==
    /\ last.op = "Get"
    /\ last.state # "NoAnimationFrameRequested"
    /\ ticks = 1
    /\ hostRequests = 2
    /\ calls = 2
    /\ issued = 1
    /\ Requested
    /\ \E i \in DOMAIN status : last.sig = i /\ status[i].kind = "Running"

\* ---------------------------------------------------------------- settling
\* C23: once the source has stopped changing, with the clock advancing and
\* every requested frame delivered, every animated signal's status is
\* eventually Static, for good.
C23_EventuallyStatic ==
    <>[](\A i \in DOMAIN status : status[i].kind = "Static")

\* Under the same conditions no status stays Running: every status is
\* eventually Static or Snap for good, and the output value is its target
EventuallySettled ==
    <>[](\A i \in DOMAIN status :
            /\ status[i].kind \in {"Static", "Snap"}
            /\ ValueOf(status[i], now) = Num(status[i].value * Unit))

\* The recomputation that prunes a Running status to Snap calls no
\* request_animation_frame: the scheduler is left as the delivery set it
PruneToSnapRequestsNoFrame ==
    [][\A i \in DOMAIN status :
          (Ticked(i)' /\ status[i].kind = "Running" /\ status'[i].kind = "Snap")
             => UNCHANGED <<state, nativePending, hostRequests, calls, issued>>]_vars

\* A status that is Running has a frame requested or a memo to recompute
RunningKeepsTickComing ==
    \A i \in DOMAIN status :
        status[i].kind = "Running" => (Requested \/ dirty[i])

\* ------------------------------------------------------- front and target
\* C24: in every Running status the front animation ends at the status's
\* target: its to and to_i are the status's to and to_i.
C24_FrontEndsAtTarget ==
    \A i \in DOMAIN status :
        status[i].kind = "Running"
           => /\ Head(status[i].animations).to = status[i].to
              /\ Head(status[i].animations).to_i = status[i].to_i

\* The effect leaves the front animation ending at the target it set: only
\* a prune brings an animation with another target to the front
EffectLeavesFrontAtTarget ==
    \A i \in DOMAIN status :
        (Applied(i) /\ status[i].kind = "Running")
           => /\ Head(status[i].animations).to = status[i].to
              /\ Head(status[i].animations).to_i = status[i].to_i

====
